---- MODULE Spec2Model ----
(***************************************************************************)
(* A model of the Matrix<N> class template of matrix.hpp.                  *)
(*                                                                         *)
(* The state is a small world of Matrix objects as a client program sees   *)
(* them.  Each object has the three private members of the class: _data    *)
(* (a std::vector, modelled as a reference to the heap buffer that holds   *)
(* its rows; 0 is a vector that owns no buffer), _rows and _cols.  Every   *)
(* public member function is one action.  assert() is modelled as compiled *)
(* in (the CMake project sets no build type, hence no NDEBUG): a failed    *)
(* assertion ends the program.  An access outside a vector is undefined    *)
(* behaviour: the program either crashes or goes on with a garbage value.  *)
(***************************************************************************)
EXTENDS Integers, Sequences, FiniteSets, TLC

\* Bounds of the model.
NumObjs == 3
MaxRows == 2
MaxCols == 2
MaxCalls == 4

\* N is any integral or floating-point type (concept Number).  A value of N is
\* modelled as an integer, and NaN, which a floating-point N has, as this one.
NaN == -1

\* The values of N the model draws from: those a client passes as init_val,
\* those it writes to an element, and all of them (what a read outside a
\* store may yield).
InitVals == {4, 8}
WriteVals == {4, NaN}
Vals == InitVals \cup WriteVals

\* N's operators.  With MaxCalls calls no sum leaves the range of N (8 *
\* 2^MaxCalls at most), so on numbers N's + is the integers' +.
N_plus(x, y) == IF x = NaN \/ y = NaN THEN NaN ELSE x + y
N_ne(x, y) == x = NaN \/ y = NaN \/ x # y
N_eq(x, y) == ~N_ne(x, y)
N_str(x) == IF x = NaN THEN "nan" ELSE ToString(x)

Objs == 1..NumObjs
Bufs == 1..NumObjs

VARIABLES
    live,     \* live[o]: object o has been constructed and not yet destroyed
    _data,    \* _data[o]: the buffer o's vector owns, 0 when it owns none
    _rows,    \* _rows[o]
    _cols,    \* _cols[o]
    heap,     \* heap[b]: the rows held in buffer b
    pc,       \* "run", or "aborted" (failed assert), or "crashed" (UB)
    last,     \* the last call made: operation, operands, outcome, result
    oob,      \* some access so far fell outside a vector
    calls,    \* number of calls made so far (bounded)
    made      \* made[o]: the <<rows, cols>> o was constructed with

vars == <<live, _data, _rows, _cols, heap, pc, last, oob, calls, made>>

----------------------------------------------------------------------------
\* std::vector, as far as Matrix uses it.

\* std::vector<N>(n): n value-initialised elements.
vector_n(n) == [j \in 1..n |-> 0]

\* v.resize(n, x)
resize(v, n, x) ==
    IF n <= Len(v) THEN SubSeq(v, 1, n)
    ELSE v \o [i \in 1..(n - Len(v)) |-> x]

\* Whether v[i][x] (0-based, as in the source) lies inside the store v.
InStore(v, i, x) == i + 1 <= Len(v) /\ x + 1 <= Len(v[i + 1])

\* v[i][x] read without a bounds check: outside the store the value is garbage.
At(v, i, x, g) == IF InStore(v, i, x) THEN v[i + 1][x + 1] ELSE g

\* v[i][x] = val without a bounds check: outside the store no element changes.
Put(v, i, x, val) ==
    IF InStore(v, i, x) THEN [v EXCEPT ![i + 1][x + 1] = val] ELSE v

----------------------------------------------------------------------------
\* Views of the state.

\* The rows object o's vector holds.
Store(o) == IF _data[o] = 0 THEN <<>> ELSE heap[_data[o]]

\* Object o as a value: its shape members and the contents of its vector.
Mat(o) == [rows |-> _rows[o], cols |-> _cols[o], data |-> Store(o)]

\* The data model's invariant for one matrix value.
Rect(m) ==
    /\ Len(m.data) = m.rows
    /\ \A i \in 1..Len(m.data) : Len(m.data[i]) = m.cols

LiveObjs == {o \in Objs : live[o]}
UsedBufs == {_data[o] : o \in LiveObjs} \ {0}

\* A new object takes the lowest free slot, a new vector the lowest free buffer.
NewObj == CHOOSE o \in Objs : ~live[o] /\ \A p \in Objs : p < o => live[p]
NewBuf == CHOOSE b \in Bufs : b \notin UsedBufs /\ \A c \in Bufs : c < b => c \in UsedBufs

Call(op, self, arg, dst, outcome, ret) ==
    [op |-> op, self |-> self, arg |-> arg, dst |-> dst, outcome |-> outcome, ret |-> ret]

\* The client program: a bounded number of calls while the program runs.
Running == pc = "run" /\ calls < MaxCalls

Init ==
    /\ live = [o \in Objs |-> FALSE]
    /\ _data = [o \in Objs |-> 0]
    /\ _rows = [o \in Objs |-> 0]
    /\ _cols = [o \in Objs |-> 0]
    /\ heap = [b \in Bufs |-> <<>>]
    /\ pc = "run"
    /\ last = Call("none", 0, 0, 0, "ok", <<>>)
    /\ oob = FALSE
    /\ calls = 0
    /\ made = [o \in Objs |-> <<0, 0>>]

----------------------------------------------------------------------------
\* Constructors.

\* Mutant: the store is resized to cols rows of rows elements.
Matrix_rows_cols_swapped(rows, cols) ==
    [rows |-> rows, cols |-> cols, data |-> resize(<<>>, cols, vector_n(rows))]

\* Matrix(rows, cols)
Matrix_rows_cols(rows, cols) ==
    [rows |-> rows, cols |-> cols, data |-> resize(<<>>, rows, vector_n(cols))]

\* Matrix(rows, cols, init_val)
Matrix_init(rows, cols, init_val) ==
    LET m == Matrix_rows_cols(rows, cols)
    IN  [m EXCEPT !.data = [i \in 1..Len(m.data) |->
                               [j \in 1..Len(m.data[i]) |-> init_val]]]

\* A newly constructed object dst holding the value m in a buffer of its own.
Install(dst, m) ==
    /\ live' = [live EXCEPT ![dst] = TRUE]
    /\ _data' = [_data EXCEPT ![dst] = NewBuf]
    /\ heap' = [heap EXCEPT ![NewBuf] = m.data]
    /\ _rows' = [_rows EXCEPT ![dst] = m.rows]
    /\ _cols' = [_cols EXCEPT ![dst] = m.cols]
    /\ made' = [made EXCEPT ![dst] = <<m.rows, m.cols>>]

Construct2 ==
    /\ Running
    /\ calls' = calls + 1
    /\ \E o \in Objs : ~live[o]
    /\ \E rows \in 0..MaxRows, cols \in 0..MaxCols :
          /\ Install(NewObj, Matrix_rows_cols(rows, cols))
          /\ last' = Call("Matrix2", NewObj, 0, NewObj, "ok", <<rows, cols>>)
    /\ UNCHANGED <<pc, oob>>

Construct3 ==
    /\ Running
    /\ calls' = calls + 1
    /\ \E o \in Objs : ~live[o]
    /\ \E rows \in 0..MaxRows, cols \in 0..MaxCols, init_val \in InitVals :
          /\ Install(NewObj, Matrix_init(rows, cols, init_val))
          /\ last' = Call("Matrix3", NewObj, 0, NewObj, "ok", <<rows, cols, init_val>>)
    /\ UNCHANGED <<pc, oob>>

\* The implicit destructor: the object's vector releases its buffer.
Destroy ==
    /\ Running
    /\ calls' = calls + 1
    /\ \E o \in LiveObjs :
          /\ live' = [live EXCEPT ![o] = FALSE]
          /\ heap' = [b \in Bufs |-> IF b = _data[o] THEN <<>> ELSE heap[b]]
          /\ _data' = [_data EXCEPT ![o] = 0]
          /\ _rows' = [_rows EXCEPT ![o] = 0]
          /\ _cols' = [_cols EXCEPT ![o] = 0]
          /\ made' = [made EXCEPT ![o] = <<0, 0>>]
          /\ last' = Call("destroy", o, 0, 0, "ok", <<>>)
    /\ UNCHANGED <<pc, oob>>

----------------------------------------------------------------------------
\* The member functions, as functions of matrix values.  A loop is a recursive
\* operator over the loop's own index variables.  g is a pair of garbage
\* values: what a read outside the receiver's (g[1]) or the argument's (g[2])
\* store yields.  A result records whether an assert failed (abort) and
\* whether an access fell outside a vector (ub).

\* rows(), cols(), columns()
rows(m) == m.rows
cols(m) == m.cols
columns(m) == cols(m)

\* Mutant: assert(idx<=_rows), the check the doc comment words ("greater than").
operator_index_le(m, idx) ==
    [abort |-> ~(idx <= rows(m)),
     ub    |-> idx <= rows(m) /\ ~(idx + 1 <= Len(m.data)),
     ret   |-> IF idx + 1 <= Len(m.data) THEN <<m.data[idx + 1]>> ELSE <<>>]

\* operator[](idx), mutable and const: assert(idx<_rows); return _data[idx];
operator_index(m, idx) ==
    [abort |-> ~(idx < m.rows),
     ub    |-> idx < m.rows /\ ~(idx + 1 <= Len(m.data)),
     ret   |-> IF idx + 1 <= Len(m.data) THEN <<m.data[idx + 1]>> ELSE <<>>]

\* Mutant: t[j][i] = _data[j][i];
RECURSIVE transpose_loop_swapped_read(_, _, _, _, _)
transpose_loop_swapped_read(self, t, i, j, g) ==
    IF ~(i < self.rows) THEN t
    ELSE IF ~(j < self.cols) THEN transpose_loop_swapped_read(self, t, i + 1, 0, g)
    ELSE IF ~(j < t.m.rows) THEN [t EXCEPT !.abort = TRUE]
    ELSE transpose_loop_swapped_read(self,
            [m     |-> [t.m EXCEPT !.data = Put(@, j, i, At(self.data, j, i, g[1]))],
             abort |-> FALSE,
             ub    |-> t.ub \/ ~InStore(self.data, j, i) \/ ~InStore(t.m.data, j, i)],
            i, j + 1, g)

\* The loops of transpose(): t[j][i] = _data[i][j];
RECURSIVE transpose_loop(_, _, _, _, _)
transpose_loop(self, t, i, j, g) ==
    IF ~(i < rows(self)) THEN t
    ELSE IF ~(j < cols(self)) THEN transpose_loop(self, t, i + 1, 0, g)
    ELSE IF operator_index(t.m, j).abort THEN [t EXCEPT !.abort = TRUE]
    ELSE transpose_loop(self,
            [m     |-> [t.m EXCEPT !.data = Put(@, j, i, At(self.data, i, j, g[1]))],
             abort |-> FALSE,
             ub    |-> t.ub \/ ~InStore(self.data, i, j) \/ ~InStore(t.m.data, j, i)],
            i, j + 1, g)

\* Mutant: Matrix t(rows(), cols());
transpose_same_shape(self, g) ==
    transpose_loop(self,
        [m |-> Matrix_rows_cols(rows(self), cols(self)), abort |-> FALSE, ub |-> FALSE],
        0, 0, g)

\* transpose(): Matrix t(cols(), rows()); the loops; return t;
transpose(self, g) ==
    transpose_loop(self,
        [m |-> Matrix_rows_cols(cols(self), rows(self)), abort |-> FALSE, ub |-> FALSE],
        0, 0, g)

\* T()
T(self, g) == transpose(self, g)

\* Mutant: result[k][z] = _data[i][x] + _data[j][y];
RECURSIVE seq_add_loop_self(_, _, _, _, _, _, _, _, _, _)
seq_add_loop_self(self, m, result, i, j, k, x, y, z, g) ==
    IF ~(i < self.rows) THEN result
    ELSE IF ~(x < self.cols)
         THEN seq_add_loop_self(self, m, result, i + 1, j + 1, k + 1, 0, 0, 0, g)
    ELSE IF ~(k < result.m.rows) \/ ~(j < m.rows)
         THEN [result EXCEPT !.abort = TRUE]
    ELSE seq_add_loop_self(self, m,
            [m     |-> [result.m EXCEPT !.data =
                           Put(@, k, z, N_plus(At(self.data, i, x, g[1]), At(self.data, j, y, g[1])))],
             abort |-> FALSE,
             ub    |-> \/ result.ub
                       \/ ~InStore(self.data, i, x)
                       \/ ~InStore(self.data, j, y)
                       \/ ~InStore(result.m.data, k, z)],
            i, j, k, x + 1, y + 1, z + 1, g)

\* The loops of seq_add(): result[k][z] = _data[i][x] + m[j][y];
RECURSIVE seq_add_loop(_, _, _, _, _, _, _, _, _, _)
seq_add_loop(self, m, result, i, j, k, x, y, z, g) ==
    IF ~(i < rows(self)) THEN result
    ELSE IF ~(x < cols(self))
         THEN seq_add_loop(self, m, result, i + 1, j + 1, k + 1, 0, 0, 0, g)
    ELSE IF operator_index(result.m, k).abort \/ operator_index(m, j).abort
         THEN [result EXCEPT !.abort = TRUE]
    ELSE seq_add_loop(self, m,
            [m     |-> [result.m EXCEPT !.data =
                           Put(@, k, z, N_plus(At(self.data, i, x, g[1]), At(m.data, j, y, g[2])))],
             abort |-> FALSE,
             ub    |-> \/ result.ub
                       \/ ~InStore(self.data, i, x)
                       \/ ~InStore(m.data, j, y)
                       \/ ~InStore(result.m.data, k, z)],
            i, j, k, x + 1, y + 1, z + 1, g)

\* seq_add(m): the two asserts; Matrix result(rows(), cols()); the loops.
seq_add(self, m, g) ==
    IF ~(rows(self) = rows(m)) \/ ~(cols(self) = cols(m))
    THEN [m |-> self, abort |-> TRUE, ub |-> FALSE]
    ELSE seq_add_loop(self, m,
            [m |-> Matrix_rows_cols(rows(self), cols(self)), abort |-> FALSE, ub |-> FALSE],
            0, 0, 0, 0, 0, 0, g)

\* operator+(m)
operator_plus(self, m, g) == seq_add(self, m, g)

\* Mutant: return true; placed inside the inner loop, after the first pair.
RECURSIVE eq_loop_return_early(_, _, _, _, _, _, _)
eq_loop_return_early(self, rhs, i, j, x, y, g) ==
    IF ~(i < self.rows) THEN [ret |-> TRUE, abort |-> FALSE, ub |-> FALSE]
    ELSE IF ~(x < self.cols) THEN eq_loop_return_early(self, rhs, i + 1, j + 1, 0, 0, g)
    ELSE IF ~(j < rhs.rows)
         THEN [ret |-> FALSE, abort |-> TRUE, ub |-> FALSE]
    ELSE [ret   |-> ~N_ne(At(self.data, i, x, g[1]), At(rhs.data, j, y, g[2])),
          abort |-> FALSE,
          ub    |-> ~InStore(self.data, i, x) \/ ~InStore(rhs.data, j, y)]

\* The loops of operator==: if (_data[i][x] != rhs[j][y]) return false;
RECURSIVE eq_loop(_, _, _, _, _, _, _)
eq_loop(self, rhs, i, j, x, y, g) ==
    IF ~(i < rows(self)) THEN [ret |-> TRUE, abort |-> FALSE, ub |-> FALSE]
    ELSE IF ~(x < cols(self)) THEN eq_loop(self, rhs, i + 1, j + 1, 0, 0, g)
    ELSE IF operator_index(rhs, j).abort
         THEN [ret |-> FALSE, abort |-> TRUE, ub |-> FALSE]
    ELSE LET u == ~InStore(self.data, i, x) \/ ~InStore(rhs.data, j, y)
         IN  IF N_ne(At(self.data, i, x, g[1]), At(rhs.data, j, y, g[2]))
             THEN [ret |-> FALSE, abort |-> FALSE, ub |-> u]
             ELSE LET r == eq_loop(self, rhs, i, j, x + 1, y + 1, g)
                  IN  [r EXCEPT !.ub = @ \/ u]

\* operator==(rhs): the two asserts, then the loops; return true;
operator_eq(self, rhs, g) ==
    IF ~(rows(self) = rows(rhs)) \/ ~(cols(self) = cols(rhs))
    THEN [ret |-> FALSE, abort |-> TRUE, ub |-> FALSE]
    ELSE eq_loop(self, rhs, 0, 0, 0, 0, g)

\* operator!=(rhs): return !(*this == rhs);
operator_ne(self, rhs, g) ==
    LET r == operator_eq(self, rhs, g) IN [r EXCEPT !.ret = ~@]

\* operator<<: each element followed by ' ', each row by '\n'.
RECURSIVE print_row(_, _)
print_row(row, j) ==
    IF j > Len(row) THEN "" ELSE N_str(row[j]) \o " " \o print_row(row, j + 1)

RECURSIVE operator_shl(_, _)
operator_shl(data, i) ==
    IF i > Len(data) THEN ""
    ELSE print_row(data[i], 1) \o "\n" \o operator_shl(data, i + 1)

----------------------------------------------------------------------------
\* Outcomes of a call.

\* What a call whose evaluation gave r can end in: the value is returned
\* ("ok"), an assert ended the program ("abort"), or, after an access outside
\* a vector, the program crashed ("crash") or went on with garbage ("garbage").
Outcomes(r) ==
    IF r.ub THEN {"crash", IF r.abort THEN "abort" ELSE "garbage"}
    ELSE IF r.abort THEN {"abort"} ELSE {"ok"}

Returns(out) == out \in {"ok", "garbage"}

PcAfter(out) ==
    IF out = "abort" THEN "aborted" ELSE IF out = "crash" THEN "crashed" ELSE "run"

\* The garbage values to consider for a call on the values ms.
Garbage(ms) == IF \A m \in ms : Rect(m) THEN {<<0, 0>>} ELSE Vals \X Vals

objvars == <<live, _data, _rows, _cols, heap, made>>

\* Mutant: the result is accumulated in the receiver and a copy of it returned.
ReturnMatrix_in_place(op, self, arg, r, out) ==
    /\ pc' = PcAfter(out)
    /\ oob' = (oob \/ r.ub)
    /\ IF Returns(out)
       THEN /\ live' = [live EXCEPT ![NewObj] = TRUE]
            /\ _data' = [_data EXCEPT ![NewObj] = NewBuf]
            /\ heap' = [b \in Bufs |-> IF b \in {NewBuf, _data[self]} THEN r.m.data
                                       ELSE heap[b]]
            /\ _rows' = [_rows EXCEPT ![NewObj] = r.m.rows]
            /\ _cols' = [_cols EXCEPT ![NewObj] = r.m.cols]
            /\ made' = [made EXCEPT ![NewObj] = <<r.m.rows, r.m.cols>>]
            /\ last' = Call(op, self, arg, NewObj, out, <<>>)
       ELSE /\ UNCHANGED objvars
            /\ last' = Call(op, self, arg, 0, out, <<>>)

\* A call that returns a Matrix by value, which the client holds in a new object.
ReturnMatrix(op, self, arg, r, out) ==
    /\ pc' = PcAfter(out)
    /\ oob' = (oob \/ r.ub)
    /\ IF Returns(out)
       THEN /\ Install(NewObj, r.m)
            /\ last' = Call(op, self, arg, NewObj, out, <<>>)
       ELSE /\ UNCHANGED objvars
            /\ last' = Call(op, self, arg, 0, out, <<>>)

\* A call that reads only and returns ret.
ReturnValue(op, self, arg, r, out) ==
    /\ pc' = PcAfter(out)
    /\ oob' = (oob \/ r.ub)
    /\ last' = Call(op, self, arg, 0, out, IF Returns(out) THEN r.ret ELSE <<>>)
    /\ UNCHANGED objvars

----------------------------------------------------------------------------
\* The remaining calls.

\* Mutant: a shallow copy, which refers to the source's buffer.
vector_copy_shallow(src_buf, own_buf) == src_buf

\* std::vector's copy constructor and copy assignment keep the copy's
\* elements in the copy's own buffer: the buffer the copy refers to afterwards.
vector_copy(src_buf, own_buf) == own_buf

\* Matrix(const Matrix& mat)
CopyConstruct ==
    /\ Running
    /\ calls' = calls + 1
    /\ \E o \in Objs : ~live[o]
    /\ \E mat \in LiveObjs :
          LET b == vector_copy(_data[mat], NewBuf)
          IN  /\ live' = [live EXCEPT ![NewObj] = TRUE]
              /\ _data' = [_data EXCEPT ![NewObj] = b]
              /\ heap' = [c \in Bufs |-> IF c = b THEN Store(mat) ELSE heap[c]]
              /\ _rows' = [_rows EXCEPT ![NewObj] = _rows[mat]]
              /\ _cols' = [_cols EXCEPT ![NewObj] = _cols[mat]]
              /\ made' = [made EXCEPT ![NewObj] = <<_rows[mat], _cols[mat]>>]
              /\ last' = Call("copy", NewObj, mat, NewObj, "ok", <<>>)
    /\ UNCHANGED <<pc, oob>>

\* What std::move leaves in a size_t member it was applied to.
moved_from_size(n) == n

\* Matrix(Matrix&& mat): the new object takes mat's buffer, mat's vector is
\* left empty; the size_t members are copied.
MoveConstruct ==
    /\ Running
    /\ calls' = calls + 1
    /\ \E o \in Objs : ~live[o]
    /\ \E mat \in LiveObjs :
          /\ live' = [live EXCEPT ![NewObj] = TRUE]
          /\ _data' = [_data EXCEPT ![NewObj] = _data[mat], ![mat] = 0]
          /\ _rows' = [_rows EXCEPT ![NewObj] = _rows[mat], ![mat] = moved_from_size(_rows[mat])]
          /\ _cols' = [_cols EXCEPT ![NewObj] = _cols[mat], ![mat] = moved_from_size(_cols[mat])]
          /\ made' = [made EXCEPT ![NewObj] = <<_rows[mat], _cols[mat]>>]
          /\ last' = Call("move", NewObj, mat, NewObj, "ok", <<>>)
    /\ UNCHANGED <<heap, pc, oob>>

\* operator=(const Matrix& m)
CopyAssign ==
    /\ Running
    /\ calls' = calls + 1
    /\ \E self \in LiveObjs, m \in LiveObjs :
          /\ IF self = m
             THEN UNCHANGED <<_data, heap, _rows, _cols>>
             ELSE LET b == vector_copy(_data[m], IF _data[self] = 0 THEN NewBuf ELSE _data[self])
                  IN  /\ _data' = [_data EXCEPT ![self] = b]
                      /\ heap' = [c \in Bufs |-> IF c = b THEN Store(m) ELSE heap[c]]
                      /\ _rows' = [_rows EXCEPT ![self] = _rows[m]]
                      /\ _cols' = [_cols EXCEPT ![self] = _cols[m]]
          /\ last' = Call("assign", self, m, 0, "ok", <<>>)
    /\ UNCHANGED <<live, made, pc, oob>>

\* rows(), cols(), columns()
Query ==
    /\ Running
    /\ calls' = calls + 1
    /\ \E self \in LiveObjs, op \in {"rows", "cols", "columns"} :
          LET r == [ret   |-> << CASE op = "rows" -> rows(Mat(self))
                                   [] op = "cols" -> cols(Mat(self))
                                   [] OTHER       -> columns(Mat(self)) >>,
                    abort |-> FALSE, ub |-> FALSE]
          IN  ReturnValue(op, self, 0, r, "ok")

\* self[idx], through the mutable or the const overload
Index ==
    /\ Running
    /\ calls' = calls + 1
    /\ \E self \in LiveObjs, idx \in 0..MaxRows, op \in {"index", "index_const"} :
          LET r == operator_index(Mat(self), idx)
          IN  \E out \in Outcomes(r) :
                 /\ ReturnValue(op, self, idx, r, out)

\* self[i][j] = v
SetElem ==
    /\ Running
    /\ calls' = calls + 1
    /\ \E self \in LiveObjs, i \in 0..MaxRows, v \in WriteVals :
       \E j \in 0..(_cols[self] - 1) :
          LET r == operator_index(Mat(self), i)
          IN  \E out \in Outcomes(r) :
                 /\ pc' = PcAfter(out)
                 /\ oob' = (oob \/ r.ub)
                 /\ heap' = IF out = "ok"
                            THEN [heap EXCEPT ![_data[self]] = Put(@, i, j, v)]
                            ELSE heap
                 /\ last' = Call("write", self, <<i, j, v>>, 0, out, <<>>)
    /\ UNCHANGED <<live, _data, _rows, _cols, made>>

\* self.transpose(), self.T()
Transpose ==
    /\ Running
    /\ calls' = calls + 1
    /\ \E o \in Objs : ~live[o]
    /\ \E self \in LiveObjs, op \in {"transpose", "T"} :
       \E g \in Garbage({Mat(self)}) :
          LET r == IF op = "T" THEN T(Mat(self), g) ELSE transpose(Mat(self), g)
          IN  \E out \in Outcomes(r) : ReturnMatrix(op, self, 0, r, out)

\* self.transpose().transpose(): the temporary the first call returns is the
\* receiver of the second and is destroyed at the end of the expression.
TransposeTranspose ==
    /\ Running
    /\ calls' = calls + 1
    /\ \E o \in Objs : ~live[o]
    /\ \E self \in LiveObjs :
       \E g \in Garbage({Mat(self)}) :
          LET r1 == transpose(Mat(self), g)
              r2 == transpose(r1.m, g)
              r  == IF r1.abort THEN r1
                    ELSE [r2 EXCEPT !.ub = @ \/ r1.ub]
          IN  \E out \in Outcomes(r) :
                 ReturnMatrix("transpose_transpose", self, 0, r, out)

\* self.seq_add(m), self + m
SeqAdd ==
    /\ Running
    /\ calls' = calls + 1
    /\ \E o \in Objs : ~live[o]
    /\ \E self \in LiveObjs, m \in LiveObjs, op \in {"seq_add", "plus"} :
       \E g \in Garbage({Mat(self), Mat(m)}) :
          LET r == IF op = "plus" THEN operator_plus(Mat(self), Mat(m), g)
                                  ELSE seq_add(Mat(self), Mat(m), g)
          IN  \E out \in Outcomes(r) : ReturnMatrix(op, self, m, r, out)

\* self == rhs, self != rhs
Compare ==
    /\ Running
    /\ calls' = calls + 1
    /\ \E self \in LiveObjs, rhs \in LiveObjs, op \in {"eq", "ne"} :
       \E g \in Garbage({Mat(self), Mat(rhs)}) :
          LET e == IF op = "ne" THEN operator_ne(Mat(self), Mat(rhs), g)
                                ELSE operator_eq(Mat(self), Mat(rhs), g)
              r == [e EXCEPT !.ret = <<e.ret>>]
          IN  \E out \in Outcomes(r) : ReturnValue(op, self, rhs, r, out)

\* out << m: a range-for over m._data
StreamInsert ==
    /\ Running
    /\ calls' = calls + 1
    /\ \E m \in LiveObjs :
          LET r == [ret |-> <<operator_shl(Store(m), 1)>>, abort |-> FALSE, ub |-> FALSE]
          IN  ReturnValue("print", m, 0, r, "ok")

Next ==
    \/ Construct2
    \/ Construct3
    \/ CopyConstruct
    \/ MoveConstruct
    \/ Destroy
    \/ CopyAssign
    \/ Query
    \/ Index
    \/ SetElem
    \/ Transpose
    \/ TransposeTranspose
    \/ SeqAdd
    \/ Compare
    \/ StreamInsert

Spec == Init /\ [][Next]_vars

----------------------------------------------------------------------------
\* Vocabulary of the properties.

SameShape(a, b) == a.rows = b.rows /\ a.cols = b.cols

\* The elements a and b hold at the positions of an r x c grid are equal.
SameElems(a, b, r, c) ==
    \A i \in 1..r : \A j \in 1..c : a.data[i][j] = b.data[i][j]

\* Object o as a value in the next state.
MatNext(o) ==
    [rows |-> _rows'[o], cols |-> _cols'[o],
     data |-> IF _data'[o] = 0 THEN <<>> ELSE heap'[_data'[o]]]

\* The receiver, the argument and the returned object of the last call.
Self == last.self
Arg == last.arg
Dst == last.dst

\* Object o reports shape r x c, and every o[i][j] with i < r, j < c is v.
CtorPost(o, r, c, v) ==
    /\ rows(Mat(o)) = r
    /\ cols(Mat(o)) = c
    /\ columns(Mat(o)) = cols(Mat(o))
    /\ Len(Store(o)) = r
    /\ \A i \in 0..(r - 1) :
          LET x == operator_index(Mat(o), i)
          IN  /\ ~x.abort /\ ~x.ub
              /\ Len(x.ret[1]) = c
              /\ \A j \in 1..c : x.ret[1][j] = v

\* C2: for all counts rows, cols >= 0 and every init, Matrix(rows, cols, init)
\* reports rows() = rows, cols() = columns() = cols and holds init at every
\* [i][j]; Matrix(rows, cols) has the same shape and holds 0 everywhere; the
\* accessors report the members.
C2_Constructors ==
    /\ last.op = "Matrix3" => CtorPost(Dst, last.ret[1], last.ret[2], last.ret[3])
    /\ last.op = "Matrix2" => CtorPost(Dst, last.ret[1], last.ret[2], 0)
    /\ last.op = "rows" => last.ret = <<_rows[Self]>>
    /\ last.op \in {"cols", "columns"} => last.ret = <<_cols[Self]>>

C2_Witness ==
    /\ last.op = "Matrix3"
    /\ last.ret = <<2, 2, 8>>
    /\ Store(Dst) = <<(<<8, 8>>), (<<8, 8>>)>>

\* C3: for all matrices a, b of equal shape, a.seq_add(b) and a + b return a
\* new matrix of that shape whose element at every (i, j) is a[i][j] + b[i][j];
\* in particular Matrix(2,2,4).seq_add(Matrix(2,2,8)) == Matrix(2,2,12).
C3_SeqAdd ==
    [][ last'.op \in {"seq_add", "plus"}
        => LET a == Mat(last'.self)
               b == Mat(last'.arg)
           IN  Rect(a) /\ Rect(b) /\ SameShape(a, b)
               => /\ last'.outcome = "ok"
                  /\ ~live[last'.dst] /\ live'[last'.dst]
                  /\ LET r == MatNext(last'.dst)
                     IN  /\ SameShape(r, a)
                         /\ Rect(r)
                         /\ \A i \in 1..a.rows : \A j \in 1..a.cols :
                               r.data[i][j] = N_plus(a.data[i][j], b.data[i][j])
                         /\ (a = Matrix_init(2, 2, 4) /\ b = Matrix_init(2, 2, 8))
                            => operator_eq(r, Matrix_init(2, 2, 12), <<0, 0>>)
                                  = [ret |-> TRUE, abort |-> FALSE, ub |-> FALSE]
      ]_vars

C3_Witness ==
    /\ last.op = "seq_add"
    /\ last.outcome = "ok"
    /\ Self # Arg
    /\ Mat(Self) = Matrix_init(2, 2, 4)
    /\ Mat(Arg) = Matrix_init(2, 2, 8)
    /\ Store(Dst) = <<(<<12, 12>>), (<<12, 12>>)>>

\* C4: for every matrix a of shape r x c (r = 0 or c = 0 included),
\* a.transpose() and a.T() return a new matrix of shape c x r whose [j][i] is
\* a[i][j], and the row-index assertion of operator[] never fails on the way.
C4_Transpose ==
    [][ last'.op \in {"transpose", "T"}
        => LET a == Mat(last'.self)
           IN  Rect(a)
               => /\ last'.outcome = "ok"
                  /\ ~live[last'.dst] /\ live'[last'.dst]
                  /\ LET r == MatNext(last'.dst)
                     IN  /\ rows(r) = cols(a)
                         /\ cols(r) = rows(a)
                         /\ Rect(r)
                         /\ \A i \in 1..a.rows : \A j \in 1..a.cols :
                               r.data[j][i] = a.data[i][j]
      ]_vars

C4_Witness ==
    /\ last.op = "T"
    /\ last.outcome = "ok"
    /\ Mat(Self).rows = 1 /\ Mat(Self).cols = 2
    /\ Store(Self) = <<(<<4, 8>>)>>
    /\ Store(Dst) = <<(<<4>>), (<<8>>)>>

\* Under N's ==, a and b hold equal elements at every position of an r x c grid.
AllEq(a, b, r, c) ==
    \A i \in 1..r : \A j \in 1..c : N_eq(a.data[i][j], b.data[i][j])

HasNaN(a) == \E i \in 1..a.rows : \E j \in 1..a.cols : a.data[i][j] = NaN

\* What == and != return on well-formed operands of equal shape; reflexive
\* says what a == a returns.
EqualityPost(reflexive(_)) ==
    last.op \in {"eq", "ne"}
    => LET a == Mat(Self)
           b == Mat(Arg)
       IN  Rect(a) /\ Rect(b) /\ SameShape(a, b)
           => /\ last.outcome = "ok"
              /\ last.op = "eq" => last.ret = <<AllEq(a, b, a.rows, a.cols)>>
              /\ last.op = "ne" => last.ret = <<~AllEq(a, b, a.rows, a.cols)>>
              /\ (Self = Arg /\ last.op = "eq") => last.ret = <<reflexive(a)>>

AlwaysTrue(a) == TRUE
NoNaN(a) == ~HasNaN(a)

\* C5 (as claimed): for all matrices a, b of equal shape, a == b is true iff
\* a[i][j] == b[i][j] at every position (true for matrices without elements),
\* a == a is always true, and a != b is the negation of a == b.
C5_EqualityReflexive == EqualityPost(AlwaysTrue)

\* C5 (amended): for all matrices a, b of equal shape, a == b is true iff
\* a[i][j] == b[i][j] under N's == at every position (true for matrices
\* without elements), a != b is its negation, and a == a is true exactly when
\* no element of a is NaN.
C5_Equality == EqualityPost(NoNaN)

C5_Witness ==
    /\ last.op = "eq"
    /\ last.outcome = "ok"
    /\ Self = Arg
    /\ Store(Self) = <<(<<4, NaN>>)>>
    /\ last.ret = <<FALSE>>

\* The precondition of the call op on the values a (receiver) and b
\* (argument), idx being the row index of an indexed access.
Pre(op, a, b, idx) ==
    IF op \in {"seq_add", "plus", "eq", "ne"} THEN SameShape(a, b)
    ELSE IF op \in {"index", "index_const", "write"} THEN idx < rows(a)
    ELSE TRUE

C7_TransposeRoundTrip ==
    [][ last'.op = "transpose_transpose"
        => LET a == Mat(last'.self)
           IN  Rect(a)
               => /\ last'.outcome = "ok"
                  /\ LET r == MatNext(last'.dst)
                     IN  /\ rows(r) = rows(a)
                         /\ cols(r) = cols(a)
                         /\ Rect(r)
                         /\ SameElems(r, a, a.rows, a.cols)
      ]_vars

C7_Witness ==
    /\ last.op = "transpose_transpose"
    /\ last.outcome = "ok"
    /\ Store(Self) = <<(<<4, 8>>)>>
    /\ Store(Dst) = <<(<<4, 8>>)>>
    /\ rows(Mat(Dst)) = 1 /\ cols(Mat(Dst)) = 2

\* C9: copy construction and copy assignment give the target the source's
\* shape and elements in a store of its own, replacing what the target held;
\* the source is unchanged; a = a changes nothing; and an element write to
\* one object changes no other object.
C9_CopyIsDeep ==
    [][ /\ last'.op = "copy"
           => /\ MatNext(last'.dst) = Mat(last'.arg)
              /\ MatNext(last'.arg) = Mat(last'.arg)
              /\ _data'[last'.dst] \notin {_data'[o] : o \in LiveObjs} \cup {0}
        /\ last'.op = "assign"
           => /\ MatNext(last'.self) = Mat(last'.arg)
              /\ MatNext(last'.arg) = Mat(last'.arg)
              /\ last'.self # last'.arg
                 => _data'[last'.self]
                       \notin {_data'[o] : o \in LiveObjs \ {last'.self}} \cup {0}
        /\ last'.op \in {"copy", "assign", "write"}
           => \A o \in LiveObjs \ {last'.self} : MatNext(o) = Mat(o)
        /\ last'.op = "write"
           => /\ rows(MatNext(last'.self)) = rows(Mat(last'.self))
              /\ cols(MatNext(last'.self)) = cols(Mat(last'.self))
      ]_vars

C9_Witness ==
    /\ last.op = "assign"
    /\ Self # Arg
    /\ made[Self] = <<2, 1>>
    /\ Mat(Self) = [rows |-> 1, cols |-> 2, data |-> <<(<<4, 8>>)>>]
    /\ Mat(Arg) = Mat(Self)
    /\ _data[Self] # _data[Arg]

\* C10: transpose/T, seq_add/+, ==, != and stream insertion leave the shape
\* and every element of the receiver and of the argument unchanged, also when
\* both are one object; the matrix transpose or seq_add returns is a separate
\* object, so element writes to it change neither operand.
C10_ReadOnly ==
    [][ /\ (/\ last'.op \in {"transpose", "T", "transpose_transpose", "seq_add",
                             "plus", "eq", "ne", "print"}
            /\ last'.outcome \in {"ok", "abort"})
           => /\ \A o \in LiveObjs : live'[o] /\ MatNext(o) = Mat(o)
              /\ last'.dst # 0
                 => /\ last'.dst \notin LiveObjs
                    /\ _data'[last'.dst] \notin {_data'[o] : o \in LiveObjs} \cup {0}
        /\ (last'.op = "write" /\ last'.outcome = "ok")
           => \A o \in LiveObjs \ {last'.self} : MatNext(o) = Mat(o)
      ]_vars

C10_Witness ==
    /\ last.op = "plus"
    /\ last.outcome = "ok"
    /\ Self = Arg
    /\ Store(Self) = <<(<<4, 8>>)>>
    /\ Store(Dst) = <<(<<8, 16>>)>>

\* C1: in every reachable state every Matrix object's store holds exactly
\* rows() rows of exactly cols() elements each, and rows() and cols() are the
\* values the object was constructed with.
C1_ShapeInvariant ==
    \A o \in LiveObjs :
        /\ Rect(Mat(o))
        /\ <<rows(Mat(o)), cols(Mat(o))>> = made[o]

\* C8: after Matrix b(std::move(a)) the source a is logically empty: its
\* shape members are zero like its emptied store, so that in whatever is done
\* with a afterwards every row index that passes the idx < rows() check
\* denotes a row of a's store and no access falls outside the store.
C8_MovedFromIsEmpty ==
    /\ last.op = "move" => (rows(Mat(Arg)) = 0 /\ cols(Mat(Arg)) = 0 /\ Store(Arg) = <<>>)
    /\ \A o \in LiveObjs : \A idx \in 0..(rows(Mat(o)) - 1) : idx + 1 <= Len(Store(o))
    /\ ~oob

====
